---- MODULE Spec2Model ----
(***************************************************************************)
(* Model of wrtcion (src/wrtcion.go): the RTCPeer registry, the Connection *)
(* state machine and the HTTP signaling handlers.                          *)
(*                                                                         *)
(* Every goroutine of the program is a thread of the model: the UI         *)
(* goroutine of each peer (Ring, HangUp, SendMsgToAll), one goroutine per  *)
(* inbound /sdp request (net/http serves each request on its own           *)
(* goroutine), the pion callbacks and the media loops.  http.Post is       *)
(* synchronous: the poster waits until the remote handler has returned.    *)
(***************************************************************************)
EXTENDS Integers, Sequences, FiniteSets, TLC

\* ---------------------------------------------------------------- bounds
MaxConns == 3
MaxThreads == 7
MaxDials == 2
MaxFaults == 1
MaxCands == 1
MaxEvents == 1

\* ------------------------------------------------------------- addresses
Peers == {"X", "Y"}
NoListener == "N"
Addrs == Peers \cup {NoListener}
NoAddr == ""

\* ConnectionState (src/wrtcion.go:184-190)
Standby == "Standby"
Ringing == "Ringing"
Answering == "Answering"
InCall == "InCall"
Closed == "Closed"

\* ConnectionMode (src/wrtcion.go:194-199)
TextConnection == "TextConnection"
VoiceConnectionSimplex == "VoiceConnectionSimplex"
VoiceConnectionDuplex == "VoiceConnectionDuplex"
Modes == {TextConnection, VoiceConnectionSimplex, VoiceConnectionDuplex}
\* The modes the UI dials with (src/wrtcion.go:31, 37).
DialModes == {TextConnection, VoiceConnectionSimplex}

\* SignalAction (src/wrtcion.go:203-207)
Offer == "Offer"
Answer == "Answer"
Refuse == "Refuse"

VARIABLES
    conns,      \* Connection objects ever allocated, by identity
    nconns,     \* number of Connection objects allocated
    reg,        \* RTCPeer.Connections of every peer: address -> object (0 = no entry)
    thr,        \* the goroutines: position and locals
    alive,      \* the process of a peer is running (FALSE after a panic)
    budget,     \* what the environment may still do (dials, faults, ...)
    candEvents, \* history: CandidateSignals sent
    texts       \* history: texts handed to SendMsg and their fate

vars == <<conns, nconns, reg, thr, alive, budget, candEvents, texts>>

ConnIds == 1..MaxConns
ThreadIds == 1..MaxThreads

\* The UI goroutine of a peer (wrtcionMain / tview's event loop).
UiThread(p) == IF p = "X" THEN 1 ELSE 2
WorkerIds == 3..MaxThreads

NullSig == [action |-> "none", mode |-> "none", origin |-> NoAddr]

\* A Connection that has not been allocated.
NullConn ==
    [ local |-> NoAddr, forAddr |-> NoAddr, remoteAddr |-> NoAddr,
      isInitiator |-> FALSE, mode |-> "none", state |-> "none",
      pendingCandidates |-> <<>>, dataChan |-> "nil", audioSndr |-> FALSE,
      onTrack |-> FALSE, localDesc |-> FALSE, remoteDesc |-> FALSE,
      peerCloses |-> 0, chanCloses |-> 0, ncand |-> 0, sent |-> <<>>,
      link |-> "new", notif |-> {}, chan |-> "none", refused |-> FALSE,
      dropped |-> FALSE, createdBy |-> "none", tracked |-> FALSE ]

\* newConnection (src/wrtcion.go:264-292): state Standby, the mode given,
\* an empty candidate buffer; remoteAddr and isInitiator keep their zero
\* values (the remote parameter is not stored).  forAddr, sent, refused,
\* dropped and createdBy are history: the address the object was created
\* for, the candidates it has signaled, whether a Refuse reset it from
\* Ringing, whether a signal for it was turned away by the guard, and what
\* created it ("Dial" or the action of the signal).  tracked: pion has
\* delivered the remote track to the handler set by getAudio.
newConnection(local, remote, mode) ==
    [ NullConn EXCEPT !.local = local, !.forAddr = remote, !.mode = mode,
                      !.state = Standby ]

FreeThread ==
    [ kind |-> "free", peer |-> NoAddr, pc |-> "none", conn |-> 0,
      sig |-> NullSig, caller |-> 0, ret |-> "none", idx |-> 0,
      arg |-> NoAddr, mode |-> "none", res |-> "none",
      start |-> [a \in Addrs |-> 0], visited |-> {} ]

IdleUi(p) == [ FreeThread EXCEPT !.kind = "ui", !.peer = p, !.pc = "idle" ]

HasFree == \E t \in WorkerIds : thr[t].kind = "free"
FreeSlot == CHOOSE t \in WorkerIds :
                /\ thr[t].kind = "free"
                /\ \A u \in WorkerIds : u < t => thr[u].kind # "free"

\* An address at which http.ListenAndServe is serving (src/wrtcion.go:793-796).
Listening(a) == a \in Peers /\ alive[a]

Running(t) == thr[t].kind # "free" /\ alive[thr[t].peer]

\* candidatesMutex (src/wrtcion.go:228) is held by the handler that is
\* flushing the buffer (src/wrtcion.go:469-478).
CandidatesMutexHeld(c) ==
    \E t \in ThreadIds : thr[t].kind = "sdp" /\ thr[t].pc = "flush" /\ thr[t].conn = c

Spend(what) == budget' = [budget EXCEPT ![what] = @ - 1]

\* ---------------------------------------------------------------- Init
InitBudget(b) ==
    /\ conns = [c \in ConnIds |-> NullConn]
    /\ nconns = 0
    /\ reg = [p \in Peers |-> [a \in Addrs |-> 0]]
    /\ thr = [t \in ThreadIds |->
                IF t = UiThread("X") THEN IdleUi("X")
                ELSE IF t = UiThread("Y") THEN IdleUi("Y")
                ELSE FreeThread]
    /\ alive = [p \in Peers |-> TRUE]
    /\ budget = b
    /\ candEvents = {}
    /\ texts = {}

Init ==
    InitBudget([dials |-> MaxDials, faults |-> MaxFaults, cands |-> MaxCands,
                events |-> MaxEvents])

\* ------------------------------------------------------ Connection.Close
\* Close deleting under a key that was never assigned.
CloseKeyUnset(c) == NoAddr

\* The registry key Close deletes (src/wrtcion.go:777).
CloseKey(c) == conns[c].remoteAddr

\* delete(conn.local.Connections, key): removes whatever is stored under key.
RegDelete(r, p, key) ==
    IF key \in Addrs THEN [r EXCEPT ![p][key] = 0] ELSE r

\* The data channel once the peer connection is closed: an open channel
\* closes (its OnClose callback will run), any other is discarded.
ChanAfterClose(ch) ==
    CASE ch = "open" -> "closed"
      [] ch = "created" -> "gone"
      [] OTHER -> ch

\* First half of Close (src/wrtcion.go:768-770): the state check.
CloseCheck(t) ==
    /\ Running(t)
    /\ thr[t].pc = "close_check"
    /\ IF conns[thr[t].conn].state = Closed
       THEN thr' = [thr EXCEPT ![t] =
                      IF thr[t].ret = "exit" THEN FreeThread
                      ELSE [@ EXCEPT !.pc = thr[t].ret]]
       ELSE thr' = [thr EXCEPT ![t].pc = "close_act"]
    /\ UNCHANGED <<conns, nconns, reg, alive, budget, candEvents, texts>>

\* Second half of Close (src/wrtcion.go:771-778).
CloseAct(t) ==
    /\ Running(t)
    /\ thr[t].pc = "close_act"
    /\ LET c == thr[t].conn
       IN /\ conns' = [conns EXCEPT
                ![c].state = Closed,
                ![c].chanCloses = IF conns[c].dataChan # "nil" THEN @ + 1 ELSE @,
                ![c].peerCloses = @ + 1,
                ![c].chan = ChanAfterClose(@),
                ![c].notif = @ \cup {"closed"}]
          /\ reg' = RegDelete(reg, conns[c].local, CloseKey(c))
    /\ thr' = [thr EXCEPT ![t] =
                 IF thr[t].ret = "exit" THEN FreeThread
                 ELSE [@ EXCEPT !.pc = thr[t].ret]]
    /\ UNCHANGED <<nconns, alive, budget, candEvents, texts>>

\* ----------------------------------------------------------- RTCPeer.Ring
DialFailures ==
    {"ChannelFailure", "MediaAttachFailure", "OfferFailure",
     "LocalDescFailure", "MarshalFailure", "TransportFailure"}

\* Ring without its test for an existing entry.
RingAlreadyConnectedNever(p, remote) == FALSE

\* The test of src/wrtcion.go:663.
RingAlreadyConnected(p, remote) == reg[p][remote] # 0

\* Ring, entry (src/wrtcion.go:662-666).
RingCheck(p, remote, mode) ==
    LET t == UiThread(p) IN
    /\ alive[p]
    /\ thr[t].pc = "idle"
    /\ budget.dials > 0
    /\ remote # p
    /\ Spend("dials")
    /\ IF RingAlreadyConnected(p, remote)
       THEN thr' = [thr EXCEPT ![t] =
                      [IdleUi(p) EXCEPT !.arg = remote, !.res = "AlreadyConnected"]]
       ELSE thr' = [thr EXCEPT ![t] =
                      [IdleUi(p) EXCEPT !.pc = "ring_new", !.arg = remote,
                                        !.mode = mode]]
    /\ UNCHANGED <<conns, nconns, reg, alive, candEvents, texts>>

\* Ring: newConnection, CreateDataChannel and the insertion into the
\* registry (src/wrtcion.go:668-684).  chanOk is the outcome of
\* CreateDataChannel; the object is registered either way.
RingNew(p, connOk, chanOk) ==
    LET t == UiThread(p)
        c == nconns + 1
    IN
    /\ alive[p]
    /\ thr[t].pc = "ring_new"
    /\ (connOk /\ chanOk) \/ budget.faults > 0
    /\ IF connOk /\ chanOk THEN UNCHANGED budget ELSE Spend("faults")
    /\ IF ~connOk
       THEN /\ thr' = [thr EXCEPT ![t] =
                         [IdleUi(p) EXCEPT !.arg = thr[t].arg,
                                           !.res = "ConnectionFailure"]]
            /\ UNCHANGED <<conns, nconns, reg>>
       ELSE /\ nconns < MaxConns
            /\ nconns' = c
            /\ conns' = [conns EXCEPT ![c] =
                 [newConnection(p, thr[t].arg, thr[t].mode) EXCEPT
                    !.isInitiator = TRUE,
                    !.createdBy = "Dial",
                    !.dataChan = IF chanOk THEN "chan" ELSE "nil",
                    !.chan = IF chanOk THEN "created" ELSE "none"]]
            /\ reg' = [reg EXCEPT ![p][thr[t].arg] = c]
            /\ thr' = [thr EXCEPT ![t] =
                 IF chanOk THEN [@ EXCEPT !.pc = "ring_setup", !.conn = c]
                 ELSE [@ EXCEPT !.pc = "ring_fail", !.conn = c,
                                !.res = "ChannelFailure"]]
    /\ UNCHANGED <<alive, candEvents, texts>>

IsVoice(mode) == mode \in {VoiceConnectionSimplex, VoiceConnectionDuplex}

RingSteps == {"loadAudio", "CreateOffer", "SetLocalDescription", "Marshal", "none"}

\* Ring: media attach, offer, local description, marshalling, and the
\* assignments of remoteAddr and state (src/wrtcion.go:685-719).
\* failing is the step that fails ("none": all succeed).
RingSetup(p, failing) ==
    LET t == UiThread(p)
        c == thr[t].conn
        voice == IsVoice(thr[t].mode)
    IN
    /\ alive[p]
    /\ thr[t].pc = "ring_setup"
    /\ failing = "loadAudio" => voice
    /\ failing = "none" \/ budget.faults > 0
    /\ IF failing = "none" THEN UNCHANGED budget ELSE Spend("faults")
    /\ conns' = [conns EXCEPT
          ![c].audioSndr = voice,
          ![c].localDesc = failing \in {"Marshal", "none"},
          ![c].remoteAddr = IF failing = "none" THEN thr[t].arg ELSE @,
          ![c].state = IF failing = "none" THEN Ringing ELSE @]
    /\ thr' = [thr EXCEPT ![t] =
          CASE failing = "none" -> [@ EXCEPT !.pc = "ring_post"]
            [] failing = "loadAudio" ->
                 [@ EXCEPT !.pc = "ring_fail", !.res = "MediaAttachFailure"]
            [] failing = "CreateOffer" ->
                 [@ EXCEPT !.pc = "ring_fail", !.res = "OfferFailure"]
            [] failing = "SetLocalDescription" ->
                 [@ EXCEPT !.pc = "ring_fail", !.res = "LocalDescFailure"]
            [] OTHER ->
                 [@ EXCEPT !.pc = "ring_fail", !.res = "MarshalFailure"]]
    /\ UNCHANGED <<nconns, reg, alive, candEvents, texts>>

\* http.Post of a SignalSDP to dest (src/wrtcion.go:720-724, 419-423,
\* 449-453): the request is served by a new goroutine of dest running
\* httpHandleSDP and the poster waits for it; the post fails when nobody
\* listens at dest or on a transport fault.
PostSDP(t, dest, sig, delivered, waitPc, failPc, failRes) ==
    /\ delivered => Listening(dest) /\ HasFree
    /\ ~delivered => (~Listening(dest) \/ budget.faults > 0)
    /\ IF ~delivered /\ Listening(dest) THEN Spend("faults") ELSE UNCHANGED budget
    /\ IF delivered
       THEN thr' = [thr EXCEPT
              ![t] = [@ EXCEPT !.pc = waitPc],
              ![FreeSlot] = [FreeThread EXCEPT
                   !.kind = "sdp", !.peer = dest, !.pc = "lookup",
                   !.sig = sig, !.caller = t]]
       ELSE thr' = [thr EXCEPT
              ![t] = [@ EXCEPT !.pc = failPc,
                               !.res = IF failRes = "" THEN @ ELSE failRes]]

\* Ring: sending the Offer (src/wrtcion.go:720-728).
RingPost(p, delivered) ==
    LET t == UiThread(p) IN
    /\ alive[p]
    /\ thr[t].pc = "ring_post"
    /\ PostSDP(t, thr[t].arg,
               [action |-> Offer, mode |-> thr[t].mode, origin |-> p],
               delivered, "ring_wait", "ring_fail", "TransportFailure")
    /\ UNCHANGED <<conns, nconns, reg, alive, candEvents, texts>>

\* Ring: the response arrived; closing its body (src/wrtcion.go:729-733).
RingResp(p, closeOk) ==
    LET t == UiThread(p) IN
    /\ alive[p]
    /\ thr[t].pc = "ring_resp"
    /\ closeOk \/ budget.faults > 0
    /\ IF closeOk THEN UNCHANGED budget ELSE Spend("faults")
    /\ thr' = [thr EXCEPT ![t] =
          IF closeOk
          THEN [IdleUi(p) EXCEPT !.arg = thr[t].arg, !.res = "ok",
                                 !.conn = thr[t].conn]
          ELSE [@ EXCEPT !.pc = "ring_fail", !.res = "TransportFailure"]]
    /\ UNCHANGED <<conns, nconns, reg, alive, candEvents, texts>>

\* Ring: the fail label (src/wrtcion.go:734-736) calls conn.Close().
RingFail(p) ==
    LET t == UiThread(p) IN
    /\ alive[p]
    /\ thr[t].pc = "ring_fail"
    /\ thr' = [thr EXCEPT ![t] = [@ EXCEPT !.pc = "close_check", !.ret = "idle"]]
    /\ UNCHANGED <<conns, nconns, reg, alive, budget, candEvents, texts>>

\* --------------------------------------------------------- RTCPeer.HangUp
\* HangUp (src/wrtcion.go:755-765).
HangUp(p, remote) ==
    LET t == UiThread(p) IN
    /\ alive[p]
    /\ thr[t].pc = "idle"
    /\ budget.events > 0
    /\ Spend("events")
    /\ IF reg[p][remote] = 0
       THEN thr' = [thr EXCEPT ![t] =
                      [IdleUi(p) EXCEPT !.arg = remote, !.res = "NotConnected"]]
       ELSE thr' = [thr EXCEPT ![t] =
                      [IdleUi(p) EXCEPT !.pc = "close_check", !.ret = "idle",
                                        !.arg = remote, !.conn = reg[p][remote]]]
    /\ UNCHANGED <<conns, nconns, reg, alive, candEvents, texts>>

\* ------------------------------------------------- candidate signaling
\* Either side of the pair has called Close on a session with the other.
Torn(p, q) ==
    \E c \in 1..nconns :
        /\ conns[c].local \in {p, q}
        /\ conns[c].forAddr \in {p, q}
        /\ conns[c].state = Closed \/ conns[c].peerCloses > 0

\* What signalCandidate leaves behind when the post succeeds
\* (src/wrtcion.go:294-311): the remote runs httpHandleCandidate
\* (src/wrtcion.go:329-350), which looks the origin up in its registry and
\* drops the candidate when there is no entry.
CandidateEvent(c, cand) ==
    [ from |-> c, cand |-> cand,
      hadRemote |-> conns[c].remoteDesc,
      found |-> reg[conns[c].remoteAddr][conns[c].local] # 0,
      torn |-> Torn(conns[c].local, conns[c].remoteAddr) ]

\* signalCandidate can only succeed when somebody listens at remoteAddr.
CanSignal(c) == Listening(conns[c].remoteAddr)

\* handleICECandidate signaling every candidate at once.
ShouldBufferNever(c) == FALSE

\* The branch of handleICECandidate (src/wrtcion.go:321-323): buffer the
\* candidate while the remote description is unset.
ShouldBuffer(c) == ~conns[c].remoteDesc

\* handleICECandidate (src/wrtcion.go:313-327), run by pion for every
\* candidate gathered; gathering starts with SetLocalDescription.  The
\* callback holds candidatesMutex from the test to the append or the post.
handleICECandidate(c, ok) ==
    LET p == conns[c].local
        cand == conns[c].ncand + 1
    IN
    /\ c <= nconns
    /\ alive[p]
    /\ conns[c].localDesc
    /\ conns[c].peerCloses = 0
    /\ budget.cands > 0
    /\ ~CandidatesMutexHeld(c)
    /\ IF ShouldBuffer(c)
       THEN /\ ok
            /\ conns' = [conns EXCEPT ![c].ncand = cand,
                              ![c].pendingCandidates = Append(@, cand)]
            /\ budget' = [budget EXCEPT !.cands = @ - 1]
            /\ UNCHANGED <<alive, candEvents>>
       ELSE /\ ok => CanSignal(c)
            /\ ~ok => (~CanSignal(c) \/ budget.faults > 0)
            /\ budget' = [budget EXCEPT
                  !.cands = @ - 1,
                  !.faults = IF ~ok /\ CanSignal(c) THEN @ - 1 ELSE @]
            /\ conns' = [conns EXCEPT ![c].ncand = cand,
                              ![c].sent = IF ok THEN Append(@, cand) ELSE @]
            /\ candEvents' = IF ok THEN candEvents \cup {CandidateEvent(c, cand)}
                             ELSE candEvents
            \* panic(err) (src/wrtcion.go:325) ends the process
            /\ alive' = IF ok THEN alive ELSE [alive EXCEPT ![p] = FALSE]
    /\ UNCHANGED <<nconns, reg, thr, texts>>

\* -------------------------------------------------- RTCPeer.httpHandleSDP
\* Where a poster resumes once its request has been served.
Resume(waitPc) ==
    CASE waitPc = "ring_wait" -> "ring_resp"
      [] waitPc = "answer_wait" -> "answer_resp"
      [] OTHER -> "return"

\* The handler returns: its goroutine ends and the poster resumes.
Finish(t) ==
    IF thr[t].caller # 0
    THEN [thr EXCEPT ![t] = FreeThread,
                     ![thr[t].caller] =
                         [@ EXCEPT !.pc = Resume(thr[thr[t].caller].pc)]]
    ELSE [thr EXCEPT ![t] = FreeThread]

\* The lookup of src/wrtcion.go:360.
SdpLookup(t) ==
    /\ Running(t)
    /\ thr[t].kind = "sdp"
    /\ thr[t].pc = "lookup"
    /\ LET c == reg[thr[t].peer][thr[t].sig.origin]
       IN thr' = [thr EXCEPT ![t] =
                    IF c # 0 THEN [@ EXCEPT !.pc = "switch", !.conn = c]
                    ELSE [@ EXCEPT !.pc = "create"]]
    /\ UNCHANGED <<conns, nconns, reg, alive, budget, candEvents, texts>>

\* The creation and insertion of src/wrtcion.go:361-368.
SdpCreate(t, connOk) ==
    LET c == nconns + 1 IN
    /\ Running(t)
    /\ thr[t].kind = "sdp"
    /\ thr[t].pc = "create"
    /\ connOk \/ budget.faults > 0
    /\ IF connOk
       THEN /\ nconns < MaxConns
            /\ nconns' = c
            /\ conns' = [conns EXCEPT ![c] =
                 [newConnection(thr[t].peer, thr[t].sig.origin, thr[t].sig.mode)
                    EXCEPT !.createdBy = thr[t].sig.action]]
            /\ reg' = [reg EXCEPT ![thr[t].peer][thr[t].sig.origin] = c]
            /\ thr' = [thr EXCEPT ![t] = [@ EXCEPT !.pc = "switch", !.conn = c]]
            /\ UNCHANGED budget
       ELSE /\ Spend("faults")
            /\ thr' = Finish(t)
            /\ UNCHANGED <<conns, nconns, reg>>
    /\ UNCHANGED <<alive, candEvents, texts>>

\* The guard without its test for Ringing.
SdpGuardOfferOnly(action, state) == action = Offer => state = Standby

\* The guard of the action switch (src/wrtcion.go:370-400): TRUE when the
\* signal is let through.
SdpGuard(action, state) ==
    CASE action = Offer -> state = Standby
      [] action = Answer -> state = Ringing
      [] action = Refuse -> state = Ringing
      [] OTHER -> FALSE

\* A Refuse treated as the end of the session.
OnRefuseClosing(conn) == [conn EXCEPT !.state = Closed, !.refused = TRUE]

\* A Refuse that passed the guard (src/wrtcion.go:393-395).
OnRefuse(conn) == [conn EXCEPT !.state = Standby, !.refused = TRUE]

\* The mode switch of src/wrtcion.go:402-409: getAudio is called.
CallsGetAudio(mode, action) ==
    \/ mode = VoiceConnectionSimplex /\ action = Offer
    \/ mode = VoiceConnectionDuplex

\* The action switch, the mode switch and SetRemoteDescription
\* (src/wrtcion.go:370-432).  applyOk is the outcome of SetRemoteDescription.
SdpSwitch(t, applyOk) ==
    LET c == thr[t].conn
        a == thr[t].sig.action
    IN
    /\ Running(t)
    /\ thr[t].kind = "sdp"
    /\ thr[t].pc = "switch"
    /\ IF ~SdpGuard(a, conns[c].state)
       THEN /\ applyOk
            /\ conns' = [conns EXCEPT ![c].dropped = TRUE]
            /\ thr' = Finish(t)
            /\ UNCHANGED budget
       ELSE IF a = Refuse
       THEN /\ applyOk
            /\ conns' = [conns EXCEPT ![c] = OnRefuse(@)]
            /\ thr' = Finish(t)
            /\ UNCHANGED budget
       ELSE /\ applyOk \/ budget.faults > 0
            /\ IF applyOk THEN UNCHANGED budget ELSE Spend("faults")
            /\ conns' = [conns EXCEPT
                  ![c].state = IF a = Offer THEN Answering ELSE @,
                  ![c].remoteAddr = IF a = Offer THEN thr[t].sig.origin ELSE @,
                  ![c].onTrack = IF CallsGetAudio(conns[c].mode, a) THEN TRUE ELSE @,
                  ![c].remoteDesc = IF applyOk THEN TRUE ELSE @]
            /\ thr' = [thr EXCEPT ![t] =
                  [@ EXCEPT !.pc = IF applyOk THEN "answer" ELSE "refuse_post"]]
    /\ UNCHANGED <<nconns, reg, alive, candEvents, texts>>

\* SetRemoteDescription failed: a Refuse is posted to the origin and the
\* handler returns whatever the outcome (src/wrtcion.go:412-432).
SdpRefusePost(t, delivered) ==
    /\ Running(t)
    /\ thr[t].kind = "sdp"
    /\ thr[t].pc = "refuse_post"
    /\ PostSDP(t, thr[t].sig.origin,
               [action |-> Refuse, mode |-> TextConnection, origin |-> thr[t].peer],
               delivered, "refuse_wait", "return", "")
    /\ UNCHANGED <<conns, nconns, reg, alive, candEvents, texts>>

\* The answering branch (src/wrtcion.go:435-453): taken when the state read
\* here is Answering; made is the outcome of CreateAnswer and Marshal.
SdpAnswer(t, made, delivered) ==
    LET c == thr[t].conn IN
    /\ Running(t)
    /\ thr[t].kind = "sdp"
    /\ thr[t].pc = "answer"
    /\ IF conns[c].state # Answering
       THEN /\ made /\ delivered
            /\ thr' = [thr EXCEPT ![t] = [@ EXCEPT !.pc = "lock"]]
            /\ UNCHANGED budget
       ELSE IF ~made
       THEN /\ delivered
            /\ budget.faults > 0
            /\ Spend("faults")
            /\ thr' = [thr EXCEPT ![t] = [@ EXCEPT !.pc = "return"]]
       ELSE PostSDP(t, conns[c].remoteAddr,
                    [action |-> Answer, mode |-> TextConnection, origin |-> thr[t].peer],
                    delivered, "answer_wait", "return", "")
    /\ UNCHANGED <<conns, nconns, reg, alive, candEvents, texts>>

\* The Answer was served: closing the response body and
\* SetLocalDescription (src/wrtcion.go:457-466).
SdpAnswerResp(t, ok) ==
    LET c == thr[t].conn IN
    /\ Running(t)
    /\ thr[t].kind = "sdp"
    /\ thr[t].pc = "answer_resp"
    /\ ok \/ budget.faults > 0
    /\ IF ok THEN UNCHANGED budget ELSE Spend("faults")
    /\ conns' = IF ok THEN [conns EXCEPT ![c].localDesc = TRUE] ELSE conns
    /\ thr' = [thr EXCEPT ![t] = [@ EXCEPT !.pc = IF ok THEN "lock" ELSE "return"]]
    /\ UNCHANGED <<nconns, reg, alive, candEvents, texts>>

\* candidatesMutex.Lock() (src/wrtcion.go:469).
SdpLock(t) ==
    /\ Running(t)
    /\ thr[t].kind = "sdp"
    /\ thr[t].pc = "lock"
    /\ ~CandidatesMutexHeld(thr[t].conn)
    /\ thr' = [thr EXCEPT ![t] = [@ EXCEPT !.pc = "flush", !.idx = 1]]
    /\ UNCHANGED <<conns, nconns, reg, alive, budget, candEvents, texts>>

\* One round of the flush loop, or its end (src/wrtcion.go:472-478): a
\* failed send returns with the state as it is; after the last candidate the
\* state becomes InCall.  The deferred Unlock runs on either return.
SdpFlush(t, ok) ==
    LET c == thr[t].conn
        i == thr[t].idx
    IN
    /\ Running(t)
    /\ thr[t].kind = "sdp"
    /\ thr[t].pc = "flush"
    /\ IF i <= Len(conns[c].pendingCandidates)
       THEN LET cand == conns[c].pendingCandidates[i] IN
            /\ ok => CanSignal(c)
            /\ ~ok => (~CanSignal(c) \/ budget.faults > 0)
            /\ IF ~ok /\ CanSignal(c) THEN Spend("faults") ELSE UNCHANGED budget
            /\ conns' = [conns EXCEPT ![c].sent = IF ok THEN Append(@, cand) ELSE @]
            /\ candEvents' = IF ok THEN candEvents \cup {CandidateEvent(c, cand)}
                             ELSE candEvents
            /\ thr' = IF ok THEN [thr EXCEPT ![t] = [@ EXCEPT !.idx = i + 1]]
                      ELSE [thr EXCEPT ![t] = [@ EXCEPT !.pc = "return"]]
       ELSE /\ ok
            /\ conns' = [conns EXCEPT ![c].state = InCall]
            /\ thr' = [thr EXCEPT ![t] = [@ EXCEPT !.pc = "return"]]
            /\ UNCHANGED <<budget, candEvents>>
    /\ UNCHANGED <<nconns, reg, alive, texts>>

\* The handler returns after its last statement.
SdpReturn(t) ==
    /\ Running(t)
    /\ thr[t].kind = "sdp"
    /\ thr[t].pc = "return"
    /\ thr' = Finish(t)
    /\ UNCHANGED <<conns, nconns, reg, alive, budget, candEvents, texts>>

\* A poster whose request was being served by a process that has died gets
\* an error from http.Post.
PostAborted(t) ==
    /\ Running(t)
    /\ thr[t].pc \in {"ring_wait", "answer_wait", "refuse_wait"}
    /\ \E h \in WorkerIds :
          /\ thr[h].kind = "sdp" /\ thr[h].caller = t /\ ~alive[thr[h].peer]
          /\ thr' = [thr EXCEPT
                ![h] = FreeThread,
                ![t] = IF thr[t].pc = "ring_wait"
                       THEN [@ EXCEPT !.pc = "ring_fail", !.res = "TransportFailure"]
                       ELSE [@ EXCEPT !.pc = "return"]]
    /\ UNCHANGED <<conns, nconns, reg, alive, budget, candEvents, texts>>

\* The actions a SignalSDP can carry on the wire: SignalAction is an int, so
\* a request can also carry a value that is none of the three
\* (src/wrtcion.go:396-399).
WireActions == {Offer, Answer, Refuse, "other"}

\* A request to /sdp that no Ring or handler of the two peers sent: the
\* endpoint registered at src/wrtcion.go:259 serves whatever is posted to it
\* (a peer that was restarted, a late retransmission, any other client).
\* Nobody waits for the handler.
StraySDP(dest, action, origin) ==
    /\ Listening(dest)
    /\ origin # dest
    /\ budget.events > 0
    /\ HasFree
    /\ Spend("events")
    /\ thr' = [thr EXCEPT ![FreeSlot] =
                 [FreeThread EXCEPT
                    !.kind = "sdp", !.peer = dest, !.pc = "lookup",
                    !.sig = [action |-> action, mode |-> TextConnection,
                             origin |-> origin]]]
    /\ UNCHANGED <<conns, nconns, reg, alive, candEvents, texts>>

\* ------------------------------------------------------- pion callbacks
\* The session at the other end of c's link.
Counterparts(c) ==
    {d \in 1..nconns : /\ conns[d].local = conns[c].forAddr
                       /\ conns[d].forAddr = conns[c].local}

Negotiated(c) == conns[c].localDesc /\ conns[c].remoteDesc

\* pion establishes the link once both ends hold both descriptions; it
\* then starts a goroutine running the handler registered at
\* src/wrtcion.go:282 with "connected", and the channel created by the
\* dialing side opens.
LinkEstablished(c) ==
    /\ c <= nconns
    /\ alive[conns[c].local]
    /\ Negotiated(c)
    /\ conns[c].peerCloses = 0
    /\ conns[c].link = "new"
    /\ \E d \in Counterparts(c) :
          Negotiated(d) /\ conns[d].peerCloses = 0 /\ alive[conns[d].local]
    /\ conns' = [conns EXCEPT ![c].link = "up",
                              ![c].notif = @ \cup {"connected"},
                              ![c].chan = IF @ = "created" THEN "open" ELSE @]
    /\ UNCHANGED <<nconns, reg, thr, alive, budget, candEvents, texts>>

\* handleConnectionStateChange starts the sender loop
\* (src/wrtcion.go:487-494).
StartsSendAudio(mode, isInitiator) ==
    \/ mode = VoiceConnectionSimplex /\ isInitiator
    \/ mode = VoiceConnectionDuplex

\* handleConnectionStateChange, case connected (src/wrtcion.go:485-494).
handleConnected(c) ==
    /\ c <= nconns
    /\ alive[conns[c].local]
    /\ "connected" \in conns[c].notif
    /\ conns' = [conns EXCEPT ![c].state = InCall, ![c].notif = @ \ {"connected"}]
    /\ IF StartsSendAudio(conns[c].mode, conns[c].isInitiator)
       THEN /\ HasFree
            /\ thr' = [thr EXCEPT ![FreeSlot] =
                         [FreeThread EXCEPT !.kind = "snd", !.peer = conns[c].local,
                                            !.pc = "snd_loop", !.conn = c]]
       ELSE UNCHANGED thr
    /\ UNCHANGED <<nconns, reg, alive, budget, candEvents, texts>>

\* handleConnectionStateChange, cases failed and disconnected
\* (src/wrtcion.go:495-499): the handler enters conn.Close().  pion reports
\* the loss of a link that was up, or the failure to bring one up.
handleDisconnected(c) ==
    /\ c <= nconns
    /\ alive[conns[c].local]
    /\ Negotiated(c)
    /\ conns[c].peerCloses = 0
    /\ conns[c].link # "down"
    /\ budget.events > 0
    /\ HasFree
    /\ Spend("events")
    /\ conns' = [conns EXCEPT ![c].link = "down"]
    /\ thr' = [thr EXCEPT ![FreeSlot] =
                 [FreeThread EXCEPT !.kind = "csc", !.peer = conns[c].local,
                                    !.pc = "close_check", !.ret = "csc_closed",
                                    !.conn = c]]
    /\ UNCHANGED <<nconns, reg, alive, candEvents, texts>>

\* ... and falls through to case closed (src/wrtcion.go:499-501).
CscClosed(t) ==
    /\ Running(t)
    /\ thr[t].kind = "csc"
    /\ thr[t].pc = "csc_closed"
    /\ conns' = [conns EXCEPT ![thr[t].conn].state = Closed]
    /\ thr' = [thr EXCEPT ![t] = FreeThread]
    /\ UNCHANGED <<nconns, reg, alive, budget, candEvents, texts>>

\* handleConnectionStateChange, case closed (src/wrtcion.go:500-501): pion
\* reports "closed" after peer.Close().  A run that finds the state Closed
\* already changes nothing and is left out.
handleClosed(c) ==
    /\ c <= nconns
    /\ alive[conns[c].local]
    /\ "closed" \in conns[c].notif
    /\ conns[c].state # Closed
    /\ conns' = [conns EXCEPT ![c].state = Closed, ![c].notif = @ \ {"closed"}]
    /\ UNCHANGED <<nconns, reg, thr, alive, budget, candEvents, texts>>

\* The OnDataChannel callback (src/wrtcion.go:284-289): the answering side
\* learns of the channel the dialing side created once the link is up.
OnDataChannel(c) ==
    /\ c <= nconns
    /\ alive[conns[c].local]
    /\ conns[c].link = "up"
    /\ conns[c].peerCloses = 0
    /\ ~conns[c].isInitiator
    /\ conns[c].chan = "none"
    /\ conns' = [conns EXCEPT ![c].dataChan = "chan", ![c].chan = "open"]
    /\ UNCHANGED <<nconns, reg, thr, alive, budget, candEvents, texts>>

\* handleDataChanClose (src/wrtcion.go:514-525), run when the channel has
\* closed, by this side's Close or because the other end went away: it
\* clears dataChan and enters conn.Close().
handleDataChanClose(c) ==
    /\ c <= nconns
    /\ alive[conns[c].local]
    /\ \/ conns[c].chan = "closed"
       \/ /\ conns[c].chan = "open"
          /\ \E d \in Counterparts(c) : conns[d].peerCloses > 0
    /\ HasFree
    /\ conns' = [conns EXCEPT ![c].dataChan = "nil", ![c].chan = "gone"]
    /\ thr' = [thr EXCEPT ![FreeSlot] =
                 [FreeThread EXCEPT !.kind = "dcc", !.peer = conns[c].local,
                                    !.pc = "close_check", !.ret = "exit",
                                    !.conn = c]]
    /\ UNCHANGED <<nconns, reg, alive, budget, candEvents, texts>>

\* One test of the loop condition of sendAudio and the page read after it
\* (src/wrtcion.go:633-643); a page that is read and written
\* (src/wrtcion.go:645-658) changes nothing here.  The loop leaves without
\* Close when the state is not InCall, and through Close at the end of the
\* source or on an error; it dereferences audioSndr.
sendAudio(t) ==
    LET c == thr[t].conn IN
    /\ Running(t)
    /\ thr[t].kind = "snd"
    /\ thr[t].pc = "snd_loop"
    /\ IF conns[c].state # InCall
       THEN thr' = [thr EXCEPT ![t] = FreeThread] /\ UNCHANGED alive
       ELSE IF ~conns[c].audioSndr
       THEN thr' = thr /\ alive' = [alive EXCEPT ![thr[t].peer] = FALSE]
       ELSE /\ thr' = [thr EXCEPT ![t] = [@ EXCEPT !.pc = "close_check", !.ret = "exit"]]
            /\ UNCHANGED alive
    /\ UNCHANGED <<conns, nconns, reg, budget, candEvents, texts>>

\* The sender loop of session c is running and writing samples
\* (src/wrtcion.go:633-658).
Streams(c) ==
    /\ conns[c].state = InCall
    /\ conns[c].audioSndr
    /\ conns[c].peerCloses = 0
    /\ \E t \in WorkerIds :
          thr[t].kind = "snd" /\ thr[t].conn = c /\ thr[t].pc = "snd_loop"

\* The OnTrack handler set by getAudio (src/wrtcion.go:569-599), run by pion
\* when the first packets of the remote track arrive over the link: it calls
\* saveToDisk on its own goroutine.
OnTrack(c) ==
    /\ c <= nconns
    /\ alive[conns[c].local]
    /\ conns[c].onTrack
    /\ ~conns[c].tracked
    /\ conns[c].link = "up"
    /\ conns[c].peerCloses = 0
    /\ \E d \in Counterparts(c) : Streams(d)
    /\ HasFree
    /\ conns' = [conns EXCEPT ![c].tracked = TRUE]
    /\ thr' = [thr EXCEPT ![FreeSlot] =
                 [FreeThread EXCEPT !.kind = "rcv", !.peer = conns[c].local,
                                    !.pc = "rcv_loop", !.conn = c]]
    /\ UNCHANGED <<nconns, reg, alive, budget, candEvents, texts>>

\* ReadRTP returns an error once the stream has ended: either end has
\* closed its peer connection.
ReadFails(c) ==
    \/ conns[c].peerCloses > 0
    \/ \E d \in Counterparts(c) : conns[d].peerCloses > 0

\* One test of the loop condition of saveToDisk and the read after it
\* (src/wrtcion.go:543-555): the loop leaves without Close when the state is
\* not InCall, and through Close when the read fails; a packet that is read
\* and written changes nothing here.
saveToDisk(t) ==
    LET c == thr[t].conn IN
    /\ Running(t)
    /\ thr[t].kind = "rcv"
    /\ thr[t].pc = "rcv_loop"
    /\ conns[c].state = InCall => ReadFails(c)
    /\ thr' = IF conns[c].state # InCall
              THEN [thr EXCEPT ![t] = FreeThread]
              ELSE [thr EXCEPT ![t] = [@ EXCEPT !.pc = "close_check", !.ret = "exit"]]
    /\ UNCHANGED <<conns, nconns, reg, alive, budget, candEvents, texts>>

\* ------------------------------------------------------------ SendMsg
\* What Connection.SendMsg does with a text (src/wrtcion.go:739-747):
\* nothing unless the state is InCall; then SendText on dataChan, which
\* panics on a nil dataChan and fails on a channel that is not open.
SendMsgOutcome(conn) ==
    IF conn.state # InCall THEN "nobody listening"
    ELSE IF conn.dataChan = "nil" THEN "panic"
    ELSE IF conn.chan = "open" THEN "delivered"
    ELSE "send error"

\* The destination of a text sent to every session.
ToAll == "all"

\* SendMsgToAll (src/wrtcion.go:749-753), the UI's default command
\* (src/wrtcion.go:57-59).
SendMsgToAll(p) ==
    LET cs == {reg[p][a] : a \in Addrs} \ {0}
        outcome(c) == SendMsgOutcome(conns[c])
    IN
    /\ alive[p]
    /\ thr[UiThread(p)].pc = "idle"
    /\ budget.events > 0
    /\ Spend("events")
    /\ texts' = texts \cup
          {[from |-> c, to |-> ToAll, outcome |-> outcome(c),
            mode |-> conns[c].mode, state |-> conns[c].state,
            bothActive |-> /\ conns[c].state = InCall
                           /\ \E d \in Counterparts(c) : conns[d].state = InCall]
             : c \in cs}
    /\ alive' = IF \E c \in cs : outcome(c) = "panic"
                THEN [alive EXCEPT ![p] = FALSE] ELSE alive
    /\ UNCHANGED <<conns, nconns, reg, thr, candEvents>>

\* The /msg command of parseCommand (src/wrtcion.go:44-53): the lookup, the
\* diagnostic when there is no entry, and conn.SendMsg on whatever the
\* lookup returned; there is no return after the diagnostic, so SendMsg
\* reads the state of a nil Connection.
SendMsgTo(p, remote) ==
    LET c == reg[p][remote]
        outcome == IF c = 0 THEN "panic" ELSE SendMsgOutcome(conns[c])
    IN
    /\ alive[p]
    /\ thr[UiThread(p)].pc = "idle"
    /\ budget.events > 0
    /\ Spend("events")
    /\ texts' = texts \cup
          {[from |-> c, to |-> remote, outcome |-> outcome,
            mode |-> IF c = 0 THEN "none" ELSE conns[c].mode,
            state |-> IF c = 0 THEN "none" ELSE conns[c].state,
            bothActive |-> /\ c # 0
                           /\ conns[c].state = InCall
                           /\ \E d \in Counterparts(c) : conns[d].state = InCall]}
    /\ alive' = IF outcome = "panic" THEN [alive EXCEPT ![p] = FALSE] ELSE alive
    /\ UNCHANGED <<conns, nconns, reg, thr, candEvents>>

\* ------------------------------------------------------- RTCPeer.CloseAll
\* The /exit command (src/wrtcion.go:54-56) enters CloseAll
\* (src/wrtcion.go:785-791): the range over the registry starts.  start is
\* the registry as the loop found it, visited the keys it has been at.
CloseAllStart(p) ==
    LET t == UiThread(p) IN
    /\ alive[p]
    /\ thr[t].pc = "idle"
    /\ budget.events > 0
    /\ Spend("events")
    /\ thr' = [thr EXCEPT ![t] =
                 [IdleUi(p) EXCEPT !.pc = "closeall", !.start = reg[p]]]
    /\ UNCHANGED <<conns, nconns, reg, alive, candEvents, texts>>

\* One round of the range loop (src/wrtcion.go:786-787): conn.Close() on an
\* entry not yet visited.  A range over a map visits every entry that is
\* there from the start to the end of the loop, in any order; an entry added
\* meanwhile may or may not be visited.
CloseAllNext(p, a) ==
    LET t == UiThread(p) IN
    /\ alive[p]
    /\ thr[t].pc = "closeall"
    /\ a \notin thr[t].visited
    /\ reg[p][a] # 0
    /\ thr' = [thr EXCEPT ![t] =
                 [@ EXCEPT !.pc = "close_check", !.ret = "closeall",
                           !.conn = reg[p][a], !.visited = @ \cup {a}]]
    /\ UNCHANGED <<conns, nconns, reg, alive, budget, candEvents, texts>>

\* The range loop ends (src/wrtcion.go:791); tapp.Stop() follows
\* (src/wrtcion.go:55) and wrtcionMain leaves through os.Exit(0)
\* (src/wrtcion.go:116), which runs no deferred call.
CloseAllDone(p) ==
    LET t == UiThread(p) IN
    /\ alive[p]
    /\ thr[t].pc = "closeall"
    /\ \A a \in Addrs :
          (thr[t].start[a] # 0 /\ reg[p][a] # 0) => a \in thr[t].visited
    /\ thr' = [thr EXCEPT ![t] = [@ EXCEPT !.pc = "exited", !.res = "closedAll"]]
    /\ alive' = [alive EXCEPT ![p] = FALSE]
    /\ UNCHANGED <<conns, nconns, reg, budget, candEvents, texts>>

\* ------------------------------------------------------------------ Next
\* The signaling core: dialing, hanging up, the /sdp and /candidate
\* handlers and candidate gathering.
Signaling ==
    \/ \E p \in Peers, a \in Addrs, m \in DialModes : RingCheck(p, a, m)
    \/ \E p \in Peers, connOk \in BOOLEAN, chanOk \in BOOLEAN : RingNew(p, connOk, chanOk)
    \/ \E p \in Peers, f \in RingSteps : RingSetup(p, f)
    \/ \E p \in Peers, d \in BOOLEAN : RingPost(p, d)
    \/ \E p \in Peers, ok \in BOOLEAN : RingResp(p, ok)
    \/ \E p \in Peers : RingFail(p)
    \/ \E p \in Peers, a \in Addrs : HangUp(p, a)
    \/ \E t \in ThreadIds : CloseCheck(t)
    \/ \E t \in ThreadIds : CloseAct(t)
    \/ \E c \in ConnIds, ok \in BOOLEAN : handleICECandidate(c, ok)
    \/ \E t \in WorkerIds : SdpLookup(t)
    \/ \E t \in WorkerIds, ok \in BOOLEAN : SdpCreate(t, ok)
    \/ \E t \in WorkerIds, ok \in BOOLEAN : SdpSwitch(t, ok)
    \/ \E t \in WorkerIds, m \in BOOLEAN, d \in BOOLEAN : SdpAnswer(t, m, d)
    \/ \E t \in WorkerIds, ok \in BOOLEAN : SdpAnswerResp(t, ok)
    \/ \E t \in WorkerIds : SdpLock(t)
    \/ \E t \in WorkerIds, ok \in BOOLEAN : SdpFlush(t, ok)
    \/ \E t \in WorkerIds : SdpReturn(t)

\* The established call: pion's notifications, the data channel, the
\* sender loop and texts.
InCallEvents ==
    \/ \E c \in ConnIds : LinkEstablished(c)
    \/ \E c \in ConnIds : handleConnected(c)
    \/ \E c \in ConnIds : handleDisconnected(c)
    \/ \E t \in WorkerIds : CscClosed(t)
    \/ \E c \in ConnIds : handleClosed(c)
    \/ \E c \in ConnIds : OnDataChannel(c)
    \/ \E c \in ConnIds : handleDataChanClose(c)
    \/ \E t \in WorkerIds : sendAudio(t)
    \/ \E p \in Peers : SendMsgToAll(p)

\* The commands of the UI that address one session or all of them.
UiCommands ==
    \/ \E p \in Peers, a \in Addrs : SendMsgTo(p, a)
    \/ \E p \in Peers : CloseAllStart(p)
    \/ \E p \in Peers, a \in Addrs : CloseAllNext(p, a)
    \/ \E p \in Peers : CloseAllDone(p)

\* Requests from the network at large.
Inbound ==
    \/ \E p \in Peers, a \in WireActions, o \in Addrs : StraySDP(p, a, o)

\* What the death of a process does to those waiting for it.
Crashes ==
    \/ \E t \in ThreadIds : PostAborted(t)

\* Ring called for a voice call, one-way or two-way.
VoiceDial ==
    \/ \E p \in Peers, a \in Addrs, m \in Modes \ {TextConnection} : RingCheck(p, a, m)

\* The steps of Ring and of the /sdp handler that follow the dial.
Negotiation ==
    \/ \E p \in Peers, connOk \in BOOLEAN, chanOk \in BOOLEAN : RingNew(p, connOk, chanOk)
    \/ \E p \in Peers, f \in RingSteps : RingSetup(p, f)
    \/ \E p \in Peers, d \in BOOLEAN : RingPost(p, d)
    \/ \E p \in Peers, ok \in BOOLEAN : RingResp(p, ok)
    \/ \E p \in Peers : RingFail(p)
    \/ \E t \in ThreadIds : CloseCheck(t)
    \/ \E t \in ThreadIds : CloseAct(t)
    \/ \E t \in WorkerIds : SdpLookup(t)
    \/ \E t \in WorkerIds, ok \in BOOLEAN : SdpCreate(t, ok)
    \/ \E t \in WorkerIds, ok \in BOOLEAN : SdpSwitch(t, ok)
    \/ \E t \in WorkerIds, m \in BOOLEAN, d \in BOOLEAN : SdpAnswer(t, m, d)
    \/ \E t \in WorkerIds, ok \in BOOLEAN : SdpAnswerResp(t, ok)
    \/ \E t \in WorkerIds : SdpLock(t)
    \/ \E t \in WorkerIds, ok \in BOOLEAN : SdpFlush(t, ok)
    \/ \E t \in WorkerIds : SdpReturn(t)

\* The media of a voice call: the link, the sender loop and the receive loop.
Streaming ==
    \/ \E c \in ConnIds : LinkEstablished(c)
    \/ \E c \in ConnIds : handleConnected(c)
    \/ \E t \in WorkerIds : sendAudio(t)
    \/ \E c \in ConnIds : OnTrack(c)
    \/ \E t \in WorkerIds : saveToDisk(t)

\* The branch taken when a step of the library fails.
Faulty ==
    \/ \E t \in WorkerIds, d \in BOOLEAN : SdpRefusePost(t, d)

Next == Signaling \/ Faulty \/ Crashes

\* Two peers dialing and hanging up, with faults.
Spec == Init /\ [][Next]_vars

InitCall ==
    InitBudget([dials |-> 1, faults |-> 0, cands |-> MaxCands, events |-> MaxEvents])

NextCall == Signaling \/ InCallEvents \/ Crashes

\* One call from dialing to teardown, with pion's notifications.
SpecCall == InitCall /\ [][NextCall]_vars

InitUi ==
    InitBudget([dials |-> 1, faults |-> MaxFaults, cands |-> MaxCands,
                events |-> MaxEvents + 1])

NextUi == Signaling \/ Faulty \/ Crashes \/ UiCommands

\* One dial, with faults, and the commands /msg and /exit.
SpecUi == InitUi /\ [][NextUi]_vars

InitOpen ==
    InitBudget([dials |-> 1, faults |-> 0, cands |-> MaxCands, events |-> MaxEvents])

NextOpen == Signaling \/ Inbound

\* One dial, and an /sdp endpoint that is open to the network.
SpecOpen == InitOpen /\ [][NextOpen]_vars

InitMedia ==
    InitBudget([dials |-> 1, faults |-> 0, cands |-> 0, events |-> 0])

NextMedia == VoiceDial \/ Negotiation \/ Streaming \/ Crashes

\* One voice call and its media loops.
SpecMedia == InitMedia /\ [][NextMedia]_vars

\* ================================================================ claims
Registered(c) == c # 0 /\ reg[conns[c].local][conns[c].forAddr] = c

\* A goroutine is inside httpHandleSDP with session c.
HandlerOn(c) == \E t \in WorkerIds : thr[t].kind = "sdp" /\ thr[t].conn = c

\* C1: once Dial has returned a failure of one of its steps (channel
\* creation, media attach, offer, local description, marshalling, transport
\* send), the registry holds no Session under the dialed address.
C1_FailedDialLeavesNoEntry ==
    \A p \in Peers :
        LET t == UiThread(p) IN
        (thr[t].pc = "idle" /\ thr[t].res \in DialFailures)
            => reg[p][thr[t].arg] = 0

\* C2: every Session stored in a registry has a state other than Closed.
C2_RegisteredNotClosed ==
    \A p \in Peers, a \in Addrs :
        reg[p][a] # 0 => conns[reg[p][a]].state # Closed

\* C3: a peer never holds two Sessions for one remote address: of the
\* Session objects a peer created for an address, at most one is not Closed.
C3_OneSessionPerAddress ==
    \A p \in Peers, a \in Addrs :
        Cardinality({c \in 1..nconns : /\ conns[c].local = p
                                       /\ conns[c].forAddr = a
                                       /\ conns[c].state # Closed}) <= 1

\* The signals session c has sent for the candidates of buf, in the order sent.
SignaledOf(c, buf) ==
    LET InBuf(x) == \E i \in 1..Len(buf) : buf[i] = x
    IN SelectSeq(conns[c].sent, InBuf)

\* C4: once the handler that applied the remote description has returned,
\* every candidate that was buffered has been signaled exactly once, in
\* buffer order, whatever happened during the flush.
C4_BufferedSignaledOnce ==
    \A c \in 1..nconns :
        (conns[c].remoteDesc /\ ~HandlerOn(c) /\ alive[conns[c].local])
            => SignaledOf(c, conns[c].pendingCandidates) = conns[c].pendingCandidates

\* C5: no CandidateSignal is sent by a Session whose own remote description
\* is unset, and as long as neither side has torn the session down every
\* CandidateSignal finds a Session registered for its origin at the receiver.
C5_CandidatesAfterDescription ==
    \A e \in candEvents : e.hadRemote /\ (~e.torn => e.found)

\* C5 happens: a candidate was signaled in an intact session and routed.
C5_Witness ==
    \E e \in candEvents : e.hadRemote /\ ~e.torn /\ e.found

\* C7: a Dial to an address that has a registry entry fails with
\* AlreadyConnected and changes neither the registry nor any Session.
C7_DialExistingUntouched ==
    [][\A p \in Peers, a \in Addrs, m \in DialModes :
          (RingCheck(p, a, m) /\ reg[p][a] # 0)
              => /\ reg' = reg
                 /\ conns' = conns
                 /\ thr'[UiThread(p)].pc = "idle"
                 /\ thr'[UiThread(p)].res = "AlreadyConnected"]_vars

\* C7 happens: a Dial was turned away while the address is registered.
C7_Witness ==
    \E p \in Peers :
        /\ thr[UiThread(p)].pc = "idle"
        /\ thr[UiThread(p)].res = "AlreadyConnected"
        /\ reg[p][thr[UiThread(p)].arg] # 0

\* The step is Close acting on session c.
ClosesNow(c) == conns'[c].peerCloses > conns[c].peerCloses

\* The step is the signaling handler passing a Refuse on to session c.
RefusesNow(c) == ~conns[c].refused /\ conns'[c].refused

\* C9: a Refuse that finds the Session Ringing sets it to Standby, applies
\* no remote description and signals no candidate; the Session then stays
\* registered under the remote address until Close acts on it, and Close
\* leaves it Closed and out of the registry.
C9_RefuseKeepsSessionUntilClose ==
    [][\A c \in 1..nconns :
          /\ RefusesNow(c) =>
                /\ conns[c].state = Ringing
                /\ conns'[c].state = Standby
                /\ conns'[c].remoteDesc = conns[c].remoteDesc
                /\ conns'[c].sent = conns[c].sent
                /\ candEvents' = candEvents
                /\ reg'[conns[c].local][conns[c].remoteAddr] = c
          /\ (conns[c].refused /\ Registered(c))
                => IF ClosesNow(c)
                   THEN /\ conns'[c].state = Closed
                        /\ reg'[conns[c].local][conns[c].forAddr] = 0
                   ELSE reg'[conns[c].local][conns[c].forAddr] = c]_vars

\* C9 happens: a refused Session was closed by a HangUp and is gone.
C9_Witness ==
    \E c \in 1..nconns :
        /\ conns[c].refused
        /\ conns[c].state = Closed
        /\ conns[c].remoteDesc = FALSE
        /\ reg[conns[c].local][conns[c].forAddr] = 0

\* C10: a Dial to an address where nobody listens never succeeds, and once
\* it has returned TransportFailure the caller's registry holds no Session
\* for the address and the Session the Dial created is Closed.
C10_NoListenerLeavesNothing ==
    \A p \in Peers :
        LET t == UiThread(p) IN
        (thr[t].pc = "idle" /\ thr[t].arg = NoListener)
            => /\ thr[t].res # "ok"
               /\ thr[t].res = "TransportFailure"
                     => /\ reg[p][NoListener] = 0
                        /\ conns[thr[t].conn].state = Closed

\* C10 happens: a Dial to the address without listener has failed in the send.
C10_Witness ==
    \E p \in Peers :
        /\ thr[UiThread(p)].pc = "idle"
        /\ thr[UiThread(p)].arg = NoListener
        /\ thr[UiThread(p)].res = "TransportFailure"
        /\ conns[thr[UiThread(p)].conn].state = Closed

\* C6: however many Close calls run on one Session and however they
\* interleave, its peer session and its data channel are each closed at most
\* once.
C6_ClosedAtMostOnce ==
    \A c \in 1..nconns : conns[c].peerCloses <= 1 /\ conns[c].chanCloses <= 1

\* C8: in a TextOnly call in which no step fails, a text sent by either side
\* once both Sessions are Active reaches the other side.
C8_TextDeliveredWhenActive ==
    \A e \in texts :
        (e.mode = TextConnection /\ e.bothActive) => e.outcome = "delivered"

\* C11: a text sent to one address that has no Session gives NotConnected
\* and the process keeps running; a text sent to a Session that is not Active
\* gives NotInCall ("nobody listening") and nothing is written.
C11_SendToOneErrors ==
    \A e \in texts :
        e.to # ToAll =>
            /\ e.from = 0 => e.outcome = "NotConnected"
            /\ (e.from # 0 /\ e.state # InCall) => e.outcome = "nobody listening"

\* C12: once CloseAll has run, every Session it found registered is Closed
\* and is no longer in the registry.
C12_CloseAllEmptiesRegistry ==
    \A p \in Peers :
        LET t == UiThread(p) IN
        thr[t].res = "closedAll" =>
            \A a \in Addrs :
                thr[t].start[a] # 0 =>
                    /\ conns[thr[t].start[a]].state = Closed
                    /\ reg[p][a] # thr[t].start[a]

\* C13: Closed is terminal: no step changes the state of a Session that is
\* Closed.
C13_ClosedIsTerminal ==
    [][\A c \in ConnIds :
          conns[c].state = Closed => conns'[c].state = Closed]_vars

\* The step is the signaling handler t finding that SetRemoteDescription
\* failed.
ApplyFailsNow(t) == thr[t].pc = "switch" /\ thr'[t].pc = "refuse_post"

\* C14: when applying a received Offer or Answer fails, the Session's state
\* is what it was before the message was received.
C14_FailedApplyLeavesState ==
    [][\A t \in WorkerIds :
          ApplyFailsNow(t) =>
              conns'[thr[t].conn].state = conns[thr[t].conn].state]_vars

\* The step is handleICECandidate running for session c.
CandidateNow(c) == conns'[c].ncand > conns[c].ncand

\* C17: a failure to send a CandidateSignal never ends the process, be it
\* in handleICECandidate or in the flush of the signaling handler.
C17_CandidateFailureKeepsProcess ==
    [][\A c \in ConnIds :
          (CandidateNow(c) \/ \E t \in WorkerIds :
                                 thr[t].pc = "flush" /\ thr[t].conn = c /\ thr'[t] # thr[t])
              => alive' = alive]_vars

\* C20: every registry entry's key is the remoteAddr of the Session stored
\* under it.
C20_KeyIsRemoteAddr ==
    \A p \in Peers, a \in Addrs :
        reg[p][a] # 0 => conns[reg[p][a]].remoteAddr = a

\* The step is the handler t turning its signal away at the guard: an Offer
\* for a Session that is not Standby, an Answer or a Refuse for one that is
\* not Ringing.
GuardFailsNow(t) ==
    /\ thr[t].kind = "sdp"
    /\ thr[t].pc = "switch"
    /\ alive[thr[t].peer]
    /\ thr'[t] # thr[t]
    /\ LET a == thr[t].sig.action
           st == conns[thr[t].conn].state
       IN \/ a = Offer /\ st # Standby
          \/ a \in {Answer, Refuse} /\ st # Ringing

\* C15: a session-description signal whose guard fails leaves the Session
\* as it is (state, pending candidates, descriptions and all other fields),
\* leaves the registry as it is, signals no candidate and posts nothing (no
\* request reaches any handler): the handler just returns.
C15_GuardFailedIsNoOp ==
    [][\A t \in WorkerIds :
          GuardFailsNow(t) =>
              /\ conns' = [conns EXCEPT ![thr[t].conn].dropped = TRUE]
              /\ reg' = reg
              /\ candEvents' = candEvents
              /\ thr'[t] = FreeThread
              /\ \A u \in WorkerIds :
                    thr[u].kind = "free" => thr'[u].kind = "free"]_vars

\* C15 happens: an Answer or a Refuse was turned away from a Session that
\* is still in the state it was in.
C15_Witness ==
    \E c \in 1..nconns :
        /\ conns[c].dropped
        /\ conns[c].state \in {Standby, Answering, InCall}
        /\ ~conns[c].remoteDesc

\* C16: every Responder-role Session in a registry was created by an Offer.
C16_HandlerCreatesForOfferOnly ==
    \A p \in Peers, a \in Addrs :
        (reg[p][a] # 0 /\ ~conns[reg[p][a]].isInitiator)
            => conns[reg[p][a]].createdBy = Offer

\* The step ends the media loop run by goroutine t (the sender loop or the
\* receive loop), at its state check or through Close.
LoopEndsNow(t) ==
    /\ thr[t].kind \in {"snd", "rcv"}
    /\ alive[thr[t].peer]
    /\ thr'[t].kind = "free"

\* C18: when a media loop of a Session terminates, the Session is Closed and
\* is not in the registry.
C18_LoopExitClosesSession ==
    [][\A t \in WorkerIds :
          LoopEndsNow(t) =>
              LET c == thr[t].conn IN
              /\ conns'[c].state = Closed
              /\ \A a \in Addrs : reg'[conns[c].local][a] # c]_vars

\* C19: the sender loop is never started on a Session that has no media
\* sender attached.
C19_SenderLoopHasSender ==
    \A t \in WorkerIds :
        thr[t].kind = "snd" => conns[thr[t].conn].audioSndr

\* C21: a Session whose state is InCall has its data-channel handle set.
C21_InCallHasDataChan ==
    \A c \in 1..nconns :
        conns[c].state = InCall => conns[c].dataChan # "nil"

====
